---------------------------- MODULE Spec2Model ----------------------------
(***************************************************************************)
(* The definition-file front end of the logic simulator: the Name Table    *)
(* (names.py), the symbol stream of the Scanner (scanner.py), the Error    *)
(* Log (errorlog.py) and the recursive-descent Parser (parse.py).          *)
(*                                                                         *)
(* A definition file is a sequence of lexemes; Scanner.get_symbol turns    *)
(* the next lexeme into a Symbol, interning words through the Name Table.  *)
(* Each grammar rule of the parser (a list head, a list item, a list       *)
(* separator/terminator) is one action.  The device, network and monitor   *)
(* stores are external: their results are chosen by the environment.       *)
(***************************************************************************)
EXTENDS Integers, Sequences, FiniteSets, TLC

(***************************************************************************)
(* Python values                                                           *)
(***************************************************************************)
\* Python's None, where an identifier or a symbol type is expected
None == -1

\* Sequencing: the rest of a computation, F, runs on the value v that the
\* step before it produced (v is evaluated once, before F)
Then(v, F(_)) == CHOOSE r \in {F(x) : x \in {v}} : TRUE

\* Strings are sequences of characters
Digits == {"0", "1", "2", "3", "4", "5", "6", "7", "8", "9"}
Whitespace == {" ", "\t", "\n"}

\* str.isdigit(): non-empty and every character a digit
IsDigitStr(s) == Len(s) > 0 /\ \A i \in 1..Len(s) : s[i] \in Digits

\* str.isspace(): non-empty and every character whitespace
IsSpaceStr(s) == Len(s) > 0 /\ \A i \in 1..Len(s) : s[i] \in Whitespace

(***************************************************************************)
(* Scanner: symbol types and keywords                                      *)
(***************************************************************************)
COMMA == 0
SEMICOLON == 1
COLON == 2
DOT == 3
SLASH == 4
KEYWORD == 5
NUMBER == 6
NAME == 7
ARROW == 8
EOF == 9

sDEVICE == <<"D", "E", "V", "I", "C", "E">>
sCONNECT == <<"C", "O", "N", "N", "E", "C", "T">>
sMONITOR == <<"M", "O", "N", "I", "T", "O", "R">>
sINPUTS == <<"I", "N", "P", "U", "T", "S">>

KEYWORDS_LIST == <<sDEVICE, sCONNECT, sMONITOR, sINPUTS>>

SeqRange(s) == {s[i] : i \in 1..Len(s)}

(***************************************************************************)
(* Name Table (names.py): a sequence of strings, identifier = index - 1    *)
(***************************************************************************)
Query(nm, s) ==
    IF \E i \in 1..Len(nm) : nm[i] = s
    THEN (CHOOSE i \in 1..Len(nm) : nm[i] = s /\ \A j \in 1..(i - 1) : nm[j] # s) - 1
    ELSE None

\* LookupStep as it would be if it appended every name it is given
LookupStepAppend(acc, s) ==
    IF IsSpaceStr(s)
    THEN acc
    ELSE [names |-> Append(acc.names, s), ids |-> Append(acc.ids, Len(acc.names))]

\* One iteration of the loop of Names.lookup: the table and the ids so far
LookupStep(acc, s) ==
    IF IsSpaceStr(s)
    THEN acc
    ELSE IF Query(acc.names, s) = None
         THEN [names |-> Append(acc.names, s), ids |-> Append(acc.ids, Len(acc.names))]
         ELSE [names |-> acc.names, ids |-> Append(acc.ids, Query(acc.names, s))]

RECURSIVE LookupFrom(_, _)
LookupFrom(acc, strs) ==
    IF strs = <<>> THEN acc
    ELSE Then(LookupStep(acc, Head(strs)), LAMBDA a : LookupFrom(a, Tail(strs)))

\* Names.lookup(name_string_list): the new table and the list of ids
Lookup(nm, strs) == LookupFrom([names |-> nm, ids |-> <<>>], strs)

\* The None that get_name_string returns in place of a string
NoneStr == <<"None">>

\* The exceptions get_name_string raises, in place of a string
AssertionErrorStr == <<"AssertionError">>
TypeErrorStr == <<"TypeError">>

\* get_name_string as it would be if it returned None for every identifier
\* that is not in the table
GetNameStringOrNone(nm, id) ==
    IF id >= 0 /\ id < Len(nm) THEN nm[id + 1] ELSE NoneStr

\* Names.get_name_string(name_id).  None is not an int, and None < 0 raises
\* TypeError; None is written -1 here, so the negative integers are -2, -3, ...
GetNameString(nm, id) ==
    IF id = None THEN TypeErrorStr
    ELSE IF id >= 0
    THEN IF id < Len(nm) THEN nm[id + 1] ELSE NoneStr
    ELSE AssertionErrorStr

(***************************************************************************)
(* Device store vocabulary (devices.py is not part of the sources: the     *)
(* names it interns at construction are taken from the grammar)            *)
(***************************************************************************)
sAND == <<"A", "N", "D">>
sOR == <<"O", "R">>
sNAND == <<"N", "A", "N", "D">>
sNOR == <<"N", "O", "R">>
sXOR == <<"X", "O", "R">>
sNOT == <<"N", "O", "T">>
sCLOCK == <<"C", "L", "O", "C", "K">>
sSWITCH == <<"S", "W", "I", "T", "C", "H">>
sDTYPE == <<"D", "T", "Y", "P", "E">>
sCLK == <<"C", "L", "K">>
sSET == <<"S", "E", "T">>
sCLEAR == <<"C", "L", "E", "A", "R">>
sDATA == <<"D", "A", "T", "A">>
sQ == <<"Q">>
sQBAR == <<"Q", "B", "A", "R">>

DeviceVocabulary ==
    <<sAND, sOR, sNAND, sNOR, sXOR, sNOT, sCLOCK, sSWITCH, sDTYPE,
      sCLK, sSET, sCLEAR, sDATA, sQ, sQBAR>>

\* The Name Table once Devices(names) and Scanner(path, names) are constructed
InitialNames == Lookup(Lookup(<<>>, DeviceVocabulary).names, KEYWORDS_LIST).names

\* Identifiers the device store publishes (devices.SWITCH, devices.gate_types, ...)
DevId(s) == Query(InitialNames, s)
gate_types == {DevId(sAND), DevId(sOR), DevId(sNAND), DevId(sNOR)}
dtype_input_ids == {DevId(sCLK), DevId(sSET), DevId(sCLEAR), DevId(sDATA)}
dtype_output_ids == {DevId(sQ), DevId(sQBAR)}

\* Results of the stores
NO_ERROR == 0
STORE_ERROR == 1

(***************************************************************************)
(* Error Log (errorlog.py)                                                 *)
(***************************************************************************)
PunctuationError == "PunctuationError"
DeviceDefinitionError == "DeviceDefinitionError"
MissingKeywordError == "MissingKeywordError"
NameSyntaxError == "NameSyntaxError"
DeviceReferenceError == "DeviceReferenceError"
PortReferenceError == "PortReferenceError"
ProtectedKeywordError == "ProtectedKeywordError"
MultipleConnectionError == "MultipleConnectionError"
OutOfBoundsError == "OutOfBoundsError"
CustomException == "CustomException"

\* No exception pending
NoExc == "none"
\* Exceptions that are not CustomException: no rule of the parser catches them
KeyError == "KeyError"
AttributeError == "AttributeError"

\* ErrorLog.no_errors()
NoErrors(errs) == Len(errs) = 0

\* CustomException.set_error_pos(symbol) followed by ErrorLog.__call__(err)
Record(errs, err, sym) ==
    Append(errs, [name |-> err, cursor_line |-> sym.cursor_line,
                  cursor_column |-> sym.cursor_column])

\* ErrorLog.contains_error(error_type)
ContainsError(errs, err) == \E i \in 1..Len(errs) : errs[i].name = err

(***************************************************************************)
(* The definition file, as the lexemes Scanner.get_symbol finds in it      *)
(***************************************************************************)
\* a letter followed by alphanumerics
Word(text) == [cls |-> "word", text |-> text, val |-> None, type |-> None]
\* a run of digits
Num(n) == [cls |-> "number", text |-> <<>>, val |-> n, type |-> None]
\* , ; : . / or ->
Punct(t) == [cls |-> "punct", text |-> <<>>, val |-> None, type |-> t]
\* a character no rule of the scanner matches, or a '-' without '>'
Other == [cls |-> "other", text |-> <<>>, val |-> None, type |-> None]

VARIABLES
    input,      \* the lexemes of the definition file
    pos,        \* scanner: index of the next lexeme to read
    names,      \* Names.names
    symbol,     \* Parser.symbol
    errors,     \* ErrorLog.errors
    pc,         \* the rule parse_network is about to run
    ret,        \* what parse_network returned: <<>> before it returns, then <<value>>
    exc,        \* the exception that left parse_network, if any
    devs,       \* device store: the devices made, by identifier
    mons,       \* monitor store: the monitors made
    calls,      \* every call made to make_device / make_connection / make_monitor
    file,       \* Scanner.file: the characters, the read offset, whether it is closed
    scanner,    \* Scanner.cur, Scanner.cursor_line, Scanner.cursor_column
    symbols,    \* every symbol get_symbol returned, with the offsets it was read from
    reply       \* the last call made to the Name Table and what it returned

\* The state of the parser and of the stores it calls
parserVars == <<input, pos, symbol, errors, pc, ret, exc, devs, mons, calls>>
\* The state of the scanner, read character by character
scannerVars == <<file, scanner, symbols>>

vars == <<input, pos, names, symbol, errors, pc, ret, exc, devs, mons, calls,
          file, scanner, symbols, reply>>

\* The scanner and the Name Table calls while the parser is followed lexeme
\* by lexeme
NoFile == [text |-> <<>>, offset |-> 0, closed |-> FALSE, read_closed |-> FALSE]
\* Scanner.cur is None before the first character is read
NoCur == "None"
NoScanner == [cur |-> NoCur, cursor_line |-> 1, cursor_column |-> 1]
NoReply == [op |-> "none", arg |-> <<>>, val |-> <<>>]

\* Parser.symbol before the first _next_symbol()
NoSymbol == [type |-> None, id |-> None, cursor_line |-> None, cursor_column |-> None]

\* The symbol for lexeme number p: the file is one line, the column is the
\* lexeme's index
SymbolAt(type, id, p) ==
    [type |-> type, id |-> id, cursor_line |-> 1, cursor_column |-> p]

\* Scanner.get_symbol(): the symbol, the scanner's new position and the Name Table
GetSymbol(p, nm) ==
    IF p > Len(input)
    THEN [sym |-> SymbolAt(EOF, None, Len(input) + 1), pos |-> p, names |-> nm]
    ELSE LET l == input[p] IN
         CASE l.cls = "word" ->
                Then(Lookup(nm, <<l.text>>), LAMBDA r :
                [sym |-> SymbolAt(IF l.text \in SeqRange(KEYWORDS_LIST)
                                  THEN KEYWORD ELSE NAME, r.ids[1], p),
                 pos |-> p + 1, names |-> r.names])
           [] l.cls = "number" ->
                [sym |-> SymbolAt(NUMBER, l.val, p), pos |-> p + 1, names |-> nm]
           [] l.cls = "punct" ->
                [sym |-> SymbolAt(l.type, None, p), pos |-> p + 1, names |-> nm]
           [] OTHER ->
                [sym |-> SymbolAt(None, None, p), pos |-> p + 1, names |-> nm]

(***************************************************************************)
(* Parser (parse.py).  The rules thread the parser's mutable state through *)
(* a record: the current symbol, the scanner position, the Name Table, the *)
(* Error Log, and whether the rule is caught in a loop that never ends.    *)
(***************************************************************************)
Current ==
    [sym |-> symbol, pos |-> pos, names |-> names, errs |-> errors, hang |-> FALSE]

\* Parser._next_symbol()
NextSymbol(st) ==
    Then(GetSymbol(st.pos, st.names),
         LAMBDA r : [st EXCEPT !.sym = r.sym, !.pos = r.pos, !.names = r.names])

\* The stopping sets of Parser._error
ItemStops == {COMMA, SEMICOLON}
ListStops == {SEMICOLON}

\* The loop of Parser._error: read until a stopping symbol or EOF
RECURSIVE SkipTo(_, _)
SkipTo(st, stops) ==
    IF st.sym.type \in (stops \cup {EOF}) THEN st
    ELSE Then(NextSymbol(st), LAMBDA s : SkipTo(s, stops))

\* Parser._error(err, stopping_symbols), for an err that is a CustomException
Error(st, err, stops) ==
    Then(NextSymbol([st EXCEPT !.errs = Record(st.errs, err, st.sym)]),
         LAMBDA s : SkipTo(s, stops))

\* The loop of Parser._comment: read until the closing slash; at EOF the
\* scanner returns EOF for ever and the loop never ends
RECURSIVE CommentLoop(_)
CommentLoop(st) ==
    IF st.sym.type = SLASH THEN NextSymbol(st)
    ELSE IF st.sym.type = EOF THEN [st EXCEPT !.hang = TRUE]
    ELSE Then(NextSymbol(st), LAMBDA s : CommentLoop(s))

\* Comment as it would be if it read one symbol and took the next for the
\* closing slash
CommentOneSymbol(st) ==
    IF st.sym.type = SLASH THEN NextSymbol(NextSymbol(NextSymbol(st)))
    ELSE st

\* Parser._comment()
Comment(st) ==
    IF st.sym.type = SLASH THEN Then(NextSymbol(st), LAMBDA s : CommentLoop(s))
    ELSE st

\* IsKeyword as it would be without the comparison of the identifier
IsKeywordAnyKeyword(st, kw) == st.sym.type = KEYWORD

\* symbol is the keyword kw (type KEYWORD and id names.query(kw))
IsKeyword(st, kw) == st.sym.type = KEYWORD /\ st.sym.id = Query(st.names, kw)

\* DeviceName as it would be if a keyword were rejected like any other symbol
\* that is no name
DeviceNameNoKeyword(st) ==
    IF st.sym.type = NAME THEN [exc |-> NoExc, id |-> st.sym.id]
    ELSE [exc |-> NameSyntaxError, id |-> None]

\* Parser._devicename(): the identifier, or the exception raised
DeviceName(st) ==
    IF st.sym.type = NAME THEN [exc |-> NoExc, id |-> st.sym.id]
    ELSE IF st.sym.type = KEYWORD THEN [exc |-> ProtectedKeywordError, id |-> None]
    ELSE [exc |-> NameSyntaxError, id |-> None]

(***************************************************************************)
(* The stores (devices.py, network.py, monitors.py are not part of the     *)
(* sources).  A device is kept with its kind, its property and the set of  *)
(* its input ports that have a source; whether a store accepts a call is   *)
(* the store's choice, except that it cannot accept what it cannot hold.   *)
(***************************************************************************)
NoDevices == [d \in {} |-> None]

\* Devices.get_device(device_id) is not None
HasDevice(dv, id) == id \in DOMAIN dv

\* The decimal numeral of n, n >= 0
RECURSIVE Decimal(_)
Decimal(n) ==
    LET d == <<"0", "1", "2", "3", "4", "5", "6", "7", "8", "9">> IN
    IF n < 10 THEN <<d[n + 1]>> ELSE Decimal(n \div 10) \o <<d[(n % 10) + 1]>>

\* The names of the input ports of a device: the keys of device.inputs
InputNames(kind, prop) ==
    IF kind \in gate_types THEN {<<"I">> \o Decimal(k) : k \in 1..prop}
    ELSE IF kind = DevId(sXOR) THEN {<<"I", "1">>, <<"I", "2">>}
    ELSE IF kind = DevId(sNOT) THEN {<<"I", "1">>}
    ELSE IF kind = DevId(sDTYPE) THEN {sCLK, sSET, sCLEAR, sDATA}
    ELSE {}

\* port_id in device.inputs
HasInput(dv, nm, id, port) ==
    GetNameString(nm, port) \in InputNames(dv[id].kind, dv[id].prop)

\* device.inputs[port_id] is not None
InputConnected(dv, id, port) == port \in dv[id].conn

\* What make_device may return
MakeDeviceResults(dv, id) ==
    IF HasDevice(dv, id) THEN {STORE_ERROR} ELSE {NO_ERROR, STORE_ERROR}

\* What make_connection may return
MakeConnectionResults(dv, nm, in_dev, in_port) ==
    IF ~HasDevice(dv, in_dev) \/ ~HasInput(dv, nm, in_dev, in_port)
       \/ InputConnected(dv, in_dev, in_port)
    THEN {STORE_ERROR} ELSE {NO_ERROR, STORE_ERROR}

\* What make_monitor may return
MakeMonitorResults == {NO_ERROR, STORE_ERROR}

(***************************************************************************)
(* List items: the try blocks of _device, _connection and _monitor         *)
(***************************************************************************)
\* The try block of a rule ended: normally (exc = NoExc) or by raising exc
DeviceEnd(st, e, id, kind, prop) ==
    [st |-> st, exc |-> e, device_id |-> id, device_kind |-> kind,
     device_property |-> prop]

\* SwitchBody as it would be if any number could follow SWITCH
SwitchBodyAnyNumber(s3, id, kind) ==
    IF s3.sym.type = NUMBER
    THEN DeviceEnd(NextSymbol(s3), NoExc, id, kind, s3.sym.id)
    ELSE DeviceEnd(s3, DeviceDefinitionError, id, kind, None)

\* SWITCH: the symbol after it must be the number 0 or 1
SwitchBody(s3, id, kind) ==
    IF s3.sym.type = NUMBER /\ s3.sym.id \in {0, 1}
    THEN DeviceEnd(NextSymbol(s3), NoExc, id, kind, s3.sym.id)
    ELSE DeviceEnd(s3, DeviceDefinitionError, id, kind, None)

\* CLOCK: the symbol after it must be a number
ClockBody(s3, id, kind) ==
    IF s3.sym.type = NUMBER
    THEN DeviceEnd(NextSymbol(s3), NoExc, id, kind, s3.sym.id)
    ELSE DeviceEnd(s3, DeviceDefinitionError, id, kind, None)

\* GateInputsOutOfBounds as it would be with the bounds of its error message,
\* "between 1 and 16 inclusive"
GateInputsOutOfBoundsInclusive(n) == ~(1 <= n /\ n <= 16)

\* not 1 < device_property <= 16
GateInputsOutOfBounds(n) == ~(1 < n /\ n <= 16)

\* AND, OR, NAND, NOR: a number of inputs within bounds, then INPUTS
GateBody(s3, id, kind) ==
    IF s3.sym.type = NUMBER
    THEN IF GateInputsOutOfBounds(s3.sym.id)
         THEN DeviceEnd(s3, OutOfBoundsError, id, kind, s3.sym.id)
         ELSE Then(NextSymbol(s3), LAMBDA s4 :
              IF IsKeyword(s4, sINPUTS)
              THEN DeviceEnd(NextSymbol(s4), NoExc, id, kind, s3.sym.id)
              ELSE DeviceEnd(s4, MissingKeywordError, id, kind, s3.sym.id))
    ELSE DeviceEnd(s3, DeviceDefinitionError, id, kind, None)

\* The try block of Parser._device()
\* _device from the symbol after the colon: the kind of the device
DeviceKind(s2, id) ==
    IF s2.sym.type = NAME /\ s2.sym.id = DevId(sSWITCH)
    THEN Then(NextSymbol(s2), LAMBDA s3 : SwitchBody(s3, id, s2.sym.id))
    ELSE IF s2.sym.type = NAME /\ s2.sym.id = DevId(sCLOCK)
    THEN Then(NextSymbol(s2), LAMBDA s3 : ClockBody(s3, id, s2.sym.id))
    ELSE IF s2.sym.type = NAME
            /\ s2.sym.id \in {DevId(sDTYPE), DevId(sNOT), DevId(sXOR)}
    THEN DeviceEnd(NextSymbol(s2), NoExc, id, s2.sym.id, None)
    ELSE IF s2.sym.type = NAME /\ s2.sym.id \in gate_types
    THEN Then(NextSymbol(s2), LAMBDA s3 : GateBody(s3, id, s2.sym.id))
    ELSE DeviceEnd(s2, NameSyntaxError, id, s2.sym.id, None)

\* The try block of Parser._device()
DeviceBody(st) ==
    IF DeviceName(st).exc # NoExc
    THEN DeviceEnd(st, DeviceName(st).exc, None, None, None)
    ELSE Then(NextSymbol(st), LAMBDA s1 :
         IF s1.sym.type # COLON
         THEN DeviceEnd(s1, PunctuationError, DeviceName(st).id, None, None)
         ELSE Then(NextSymbol(s1), LAMBDA s2 : DeviceKind(s2, DeviceName(st).id)))

\* A name rule ended: normally with (device, port), or by raising exc
NameEnd(st, e, dev, port) == [st |-> st, exc |-> e, dev |-> dev, port |-> port]

\* IsGateInputName as it would be without the test for digits after the "I"
IsGateInputNameNoDigits(str) == str # NoneStr /\ Head(str) = "I"

\* input_string is not None and input_string[0] == "I" and input_string[1:].isdigit()
IsGateInputName(str) == str # NoneStr /\ Head(str) = "I" /\ IsDigitStr(Tail(str))

\* Parser._inputname()
\* OutputDeviceMissing as it would be if _outputname did not ask the store
OutputDeviceNeverMissing(dv, id) == FALSE

\* if self.devices.get_device(device_id) is None, in _inputname and _outputname
InputDeviceMissing(dv, id) == ~HasDevice(dv, id)
OutputDeviceMissing(dv, id) == ~HasDevice(dv, id)

\* _inputname from the symbol after the dot: the port
InputPort(s2, id) ==
    IF s2.sym.type # NAME THEN NameEnd(s2, NameSyntaxError, None, None)
    ELSE IF s2.sym.id \in dtype_input_ids
    THEN NameEnd(NextSymbol(s2), NoExc, id, s2.sym.id)
    ELSE IF IsGateInputName(GetNameString(s2.names, s2.sym.id))
    THEN NameEnd(NextSymbol(s2), NoExc, id, s2.sym.id)
    ELSE NameEnd(s2, PortReferenceError, None, None)

\* Parser._inputname()
InputName(st, dv) ==
    IF DeviceName(st).exc # NoExc THEN NameEnd(st, DeviceName(st).exc, None, None)
    ELSE IF InputDeviceMissing(dv, DeviceName(st).id)
    THEN NameEnd(st, DeviceReferenceError, None, None)
    ELSE Then(NextSymbol(st), LAMBDA s1 :
         IF s1.sym.type # DOT THEN NameEnd(s1, PunctuationError, None, None)
         ELSE Then(NextSymbol(s1), LAMBDA s2 : InputPort(s2, DeviceName(st).id)))

\* Parser._outputname()
\* _outputname from the symbol after the dot: the port
OutputPort(s2, id) ==
    IF s2.sym.type # NAME THEN NameEnd(s2, NameSyntaxError, None, None)
    ELSE IF s2.sym.id \in dtype_output_ids
    THEN NameEnd(NextSymbol(s2), NoExc, id, s2.sym.id)
    ELSE NameEnd(s2, NameSyntaxError, None, None)

\* Parser._outputname()
OutputName(st, dv) ==
    IF DeviceName(st).exc # NoExc THEN NameEnd(st, DeviceName(st).exc, None, None)
    ELSE IF OutputDeviceMissing(dv, DeviceName(st).id)
    THEN NameEnd(st, DeviceReferenceError, None, None)
    ELSE Then(NextSymbol(st), LAMBDA s1 :
         IF s1.sym.type # DOT THEN NameEnd(s1, NoExc, DeviceName(st).id, None)
         ELSE Then(NextSymbol(s1), LAMBDA s2 : OutputPort(s2, DeviceName(st).id)))

ConnectionEnd(st, e, in_dev, in_port, out_dev, out_port) ==
    [st |-> st, exc |-> e, in_device_id |-> in_dev, in_port_id |-> in_port,
     out_device_id |-> out_dev, out_port_id |-> out_port]

\* InputCheck as it would be without the test for an existing connection
InputCheckNoMultiple(dv, nm, in_dev, in_port) ==
    IF ~HasInput(dv, nm, in_dev, in_port) THEN KeyError ELSE NoExc

\* in_device.inputs[in_port_id] is not None: the lookup raises KeyError for
\* a port the device does not have
InputCheck(dv, nm, in_dev, in_port) ==
    IF ~HasInput(dv, nm, in_dev, in_port) THEN KeyError
    ELSE IF InputConnected(dv, in_dev, in_port) THEN MultipleConnectionError
    ELSE NoExc

\* The try block of Parser._connection()
\* _connection from the input name on
ConnectionInput(o, i, dv) ==
    IF i.exc # NoExc THEN ConnectionEnd(i.st, i.exc, None, None, o.dev, o.port)
    ELSE ConnectionEnd(i.st, InputCheck(dv, i.st.names, i.dev, i.port),
                       i.dev, i.port, o.dev, o.port)

\* The try block of Parser._connection()
ConnectionBody(st, dv) ==
    Then(OutputName(st, dv), LAMBDA o :
    IF o.exc # NoExc THEN ConnectionEnd(o.st, o.exc, None, None, None, None)
    ELSE IF o.st.sym.type # ARROW
    THEN ConnectionEnd(o.st, PunctuationError, None, None, o.dev, o.port)
    ELSE Then(NextSymbol(o.st), LAMBDA s1 :
         Then(InputName(s1, dv), LAMBDA i : ConnectionInput(o, i, dv))))

\* The try block of Parser._monitor()
MonitorBody(st, dv) == OutputName(st, dv)

(***************************************************************************)
(* parse_network and the list rules, one action per rule invocation        *)
(***************************************************************************)
\* Write the parser state a rule leaves behind
Commit(st) ==
    /\ symbol' = st.sym
    /\ pos' = st.pos
    /\ names' = st.names
    /\ errors' = st.errs
    /\ UNCHANGED <<scannerVars, reply>>

\* ... and go on with the next rule, unless _comment never returned
Goto(st, label) ==
    \E s \in {st} :
      /\ Commit(s)
      /\ pc' = IF s.hang THEN "comment_loop" ELSE label

\* An exception that no rule catches leaves parse_network
Crash(st, e) ==
    \E s \in {st} :
      /\ Commit(s)
      /\ pc' = "crashed"
      /\ exc' = e

StoreCall(op, args, res, st) ==
    [op |-> op, args |-> args, res |-> res, nerrs |-> Len(st.errs)]

\* DeviceGate as it would be if it asked whether this item raised an error
DeviceGateThisItem(b, s) == b.exc = NoExc

\* MonitorGate as it would be if _monitor made its call whatever the log holds
MonitorGateAlways(b, s) == TRUE

\* The conditions of the finally clauses: if self.errorlog.no_errors()
DeviceGate(b, s) == NoErrors(s.errs)
ConnectionGate(b, s) == NoErrors(s.errs)
MonitorGate(b, s) == NoErrors(s.errs)

\* parse_network, up to the first list: self._next_symbol()
ParseStart ==
    /\ pc = "parse_network"
    /\ Goto(NextSymbol(Current), "devicelist")
    /\ UNCHANGED <<input, ret, exc, devs, mons, calls>>

\* _devicelist: the DEVICE keyword
DeviceListHead ==
    /\ pc = "devicelist"
    /\ IF IsKeyword(Current, sDEVICE)
       THEN Goto(NextSymbol(Current), "device")
       ELSE Goto(Error(Current, MissingKeywordError, ListStops), "connectionlist")
    /\ UNCHANGED <<input, ret, exc, devs, mons, calls>>

\* _device: the try block, the except clause and the finally clause
Device ==
    /\ pc = "device"
    /\ \E b \in {DeviceBody(Current)} :
       \E s \in {IF b.exc # NoExc THEN Error(b.st, b.exc, ItemStops) ELSE b.st} :
       IF DeviceGate(b, s)
       THEN \E res \in MakeDeviceResults(devs, b.device_id) :
              /\ calls' = Append(calls, StoreCall("make_device",
                     <<b.device_id, b.device_kind, b.device_property>>, res, s))
              /\ IF res = NO_ERROR
                 THEN /\ devs' = (b.device_id :> [kind |-> b.device_kind,
                                                   prop |-> b.device_property,
                                                   conn |-> {}]) @@ devs
                      /\ Goto(s, "devicelist_sep")
                      /\ exc' = exc
                 ELSE \* self._error(None, "Device error"): None has no set_error_pos
                      /\ devs' = devs
                      /\ Crash(s, AttributeError)
       ELSE /\ Goto(s, "devicelist_sep")
            /\ UNCHANGED <<exc, devs, calls>>
    /\ UNCHANGED <<input, ret, mons>>

\* _devicelist after a device: a comma and the next device, or the semicolon
DeviceListSep ==
    /\ pc = "devicelist_sep"
    /\ IF symbol.type = COMMA
       THEN Goto(Comment(NextSymbol(Current)), "device")
       ELSE IF symbol.type = SEMICOLON
       THEN Goto(Comment(NextSymbol(Current)), "connectionlist")
       ELSE Goto(Error(Current, PunctuationError, ListStops), "connectionlist")
    /\ UNCHANGED <<input, ret, exc, devs, mons, calls>>

\* _connectionlist: the CONNECT keyword
ConnectionListHead ==
    /\ pc = "connectionlist"
    /\ IF IsKeyword(Current, sCONNECT)
       THEN Goto(NextSymbol(Current), "connection")
       ELSE Goto(Error(Current, MissingKeywordError, ListStops), "monitorlist")
    /\ UNCHANGED <<input, ret, exc, devs, mons, calls>>

\* _connection: the try block, the except clause and the finally clause.  A
\* CustomException raised in the finally clause replaces a pending KeyError
\* and is caught by _connectionlist, which ends the list.
Connection ==
    /\ pc = "connection"
    /\ \E b \in {ConnectionBody(Current, devs)} :
       \E s \in {IF b.exc \notin {NoExc, KeyError}
                 THEN Error(b.st, b.exc, ItemStops) ELSE b.st} :
       IF ConnectionGate(b, s)
       THEN \E res \in MakeConnectionResults(devs, s.names, b.in_device_id,
                                             b.in_port_id) :
              /\ calls' = Append(calls, StoreCall("make_connection",
                     <<b.in_device_id, b.in_port_id, b.out_device_id,
                       b.out_port_id>>, res, s))
              /\ IF res = NO_ERROR
                 THEN /\ devs' = [devs EXCEPT ![b.in_device_id].conn =
                                                  @ \cup {b.in_port_id}]
                      /\ IF b.exc = KeyError
                         THEN Crash(s, KeyError)
                         ELSE Goto(s, "connectionlist_sep") /\ exc' = exc
                 ELSE /\ devs' = devs
                      /\ Goto(Error(s, CustomException, ListStops), "monitorlist")
                      /\ exc' = exc
       ELSE /\ IF b.exc = KeyError
               THEN Crash(s, KeyError)
               ELSE Goto(s, "connectionlist_sep") /\ exc' = exc
            /\ UNCHANGED <<devs, calls>>
    /\ UNCHANGED <<input, ret, mons>>

\* _connectionlist after a connection
ConnectionListSep ==
    /\ pc = "connectionlist_sep"
    /\ IF symbol.type = COMMA
       THEN Goto(Comment(NextSymbol(Current)), "connection")
       ELSE IF symbol.type = SEMICOLON
       THEN Goto(NextSymbol(Comment(Current)), "monitorlist")
       ELSE Goto(Error(Current, PunctuationError, ListStops), "monitorlist")
    /\ UNCHANGED <<input, ret, exc, devs, mons, calls>>

\* _monitorlist: the MONITOR keyword
MonitorListHead ==
    /\ pc = "monitorlist"
    /\ IF IsKeyword(Current, sMONITOR)
       THEN Goto(NextSymbol(Current), "monitor")
       ELSE Goto(Error(Current, MissingKeywordError, ListStops), "print_errors")
    /\ UNCHANGED <<input, ret, exc, devs, mons, calls>>

\* _monitor: the try block, the except clause and the finally clause; the
\* result of make_monitor is not looked at
Monitor ==
    /\ pc = "monitor"
    /\ \E b \in {MonitorBody(Current, devs)} :
       \E s \in {IF b.exc # NoExc THEN Error(b.st, b.exc, ItemStops) ELSE b.st} :
       /\ IF MonitorGate(b, s)
          THEN \E res \in MakeMonitorResults :
                 /\ calls' = Append(calls, StoreCall("make_monitor",
                                                     <<b.dev, b.port>>, res, s))
                 /\ mons' = IF res = NO_ERROR THEN mons \cup {<<b.dev, b.port>>}
                            ELSE mons
          ELSE UNCHANGED <<mons, calls>>
       /\ Goto(s, "monitorlist_sep")
    /\ UNCHANGED <<input, ret, exc, devs>>

\* _monitorlist after a monitor
MonitorListSep ==
    /\ pc = "monitorlist_sep"
    /\ IF symbol.type = COMMA
       THEN Goto(Comment(NextSymbol(Current)), "monitor")
       ELSE IF symbol.type = SEMICOLON
       THEN Goto(NextSymbol(Comment(Current)), "print_errors")
       ELSE Goto(Error(Current, PunctuationError, ListStops), "print_errors")
    /\ UNCHANGED <<input, ret, exc, devs, mons, calls>>

\* Return as it would be if parse_network reported success whatever the log holds
ReturnAlwaysTrue ==
    /\ pc = "print_errors"
    /\ pc' = "done"
    /\ ret' = <<TRUE>>
    /\ UNCHANGED <<input, pos, names, symbol, errors, exc, devs, mons, calls>>
    /\ UNCHANGED <<scannerVars, reply>>

\* parse_network, after the lists: print the errors, return no_errors()
Return ==
    /\ pc = "print_errors"
    /\ pc' = "done"
    /\ ret' = <<NoErrors(errors)>>
    /\ UNCHANGED <<input, pos, names, symbol, errors, exc, devs, mons, calls>>
    /\ UNCHANGED <<scannerVars, reply>>

\* _comment at the end of the file: one more turn of its loop
CommentSpin ==
    /\ pc = "comment_loop"
    /\ symbol.type # SLASH
    /\ \E s \in {NextSymbol(Current)} : Commit(s)
    /\ pc' = "comment_loop"
    /\ UNCHANGED <<input, ret, exc, devs, mons, calls>>

Next ==
    \/ ParseStart
    \/ DeviceListHead
    \/ Device
    \/ DeviceListSep
    \/ ConnectionListHead
    \/ Connection
    \/ ConnectionListSep
    \/ MonitorListHead
    \/ Monitor
    \/ MonitorListSep
    \/ Return
    \/ CommentSpin

(***************************************************************************)
(* The definition files checked: a few files, with and without comments,   *)
(* every file that differs from one of them in one lexeme (replaced,       *)
(* removed, or the file cut short there), and every one of them followed   *)
(* by up to MaxTrail more lexemes.                                         *)
(***************************************************************************)
\* Most lexemes between the slashes of a comment
MaxComment == 1
\* Most lexemes after the end of the monitor list
MaxTrail == 1

lComma == Punct(COMMA)
lSemi == Punct(SEMICOLON)
lColon == Punct(COLON)
lDot == Punct(DOT)
lSlash == Punct(SLASH)
lArrow == Punct(ARROW)
lDEVICE == Word(sDEVICE)
lCONNECT == Word(sCONNECT)
lMONITOR == Word(sMONITOR)
lINPUTS == Word(sINPUTS)
lA == Word(<<"A">>)
lB == Word(<<"B">>)
lC == Word(<<"C">>)
lI == Word(<<"I">>)
lI1 == Word(<<"I", "1">>)
lI2 == Word(<<"I", "2">>)

Alphabet ==
    {lComma, lSemi, lColon, lDot, lSlash, lArrow, Other,
     lDEVICE, lCONNECT, lMONITOR, lINPUTS,
     Num(0), Num(1), Num(2), Num(16), Num(17), Num(100),
     lA, lB, lC, lI, lI1, lI2,
     Word(sSWITCH), Word(sCLOCK), Word(sDTYPE), Word(sNOT), Word(sXOR), Word(sAND),
     Word(sCLK), Word(sDATA), Word(sQ), Word(sQBAR)}

\* / ... / with k lexemes between the slashes
CommentOf(k) == <<lSlash>> \o [i \in 1..k |-> lC] \o <<lSlash>>

\* DEVICE A: SWITCH 0, B: AND 2 INPUTS; CONNECT A -> B.I1, A -> B.I2; MONITOR B;
GateFile ==
    <<lDEVICE, lA, lColon, Word(sSWITCH), Num(0), lComma,
      lB, lColon, Word(sAND), Num(2), lINPUTS, lSemi,
      lCONNECT, lA, lArrow, lB, lDot, lI1, lComma, lA, lArrow, lB, lDot, lI2, lSemi,
      lMONITOR, lB, lSemi>>

\* DEVICE A: DTYPE, /c/ B: CLOCK 2; /c/ CONNECT B -> A.CLK, /c/ A.Q -> A.DATA;
\* MONITOR A.QBAR, /c/ B;
DtypeFile(c) ==
    <<lDEVICE, lA, lColon, Word(sDTYPE), lComma>> \o c
    \o <<lB, lColon, Word(sCLOCK), Num(2), lSemi>> \o c
    \o <<lCONNECT, lB, lArrow, lA, lDot, Word(sCLK), lComma>> \o c
    \o <<lA, lDot, Word(sQ), lArrow, lA, lDot, Word(sDATA), lSemi>>
    \o <<lMONITOR, lA, lDot, Word(sQBAR), lComma>> \o c \o <<lB, lSemi>>

\* DEVICE A: NOT; CONNECT A -> A.I1; /c/ MONITOR A; /c/
NotFile(c) ==
    <<lDEVICE, lA, lColon, Word(sNOT), lSemi,
      lCONNECT, lA, lArrow, lA, lDot, lI1, lSemi>> \o c
    \o <<lMONITOR, lA, lSemi>> \o c

\* DEVICE A, B; CONNECT A -> B.I1; MONITOR A;
NoBodyFile ==
    <<lDEVICE, lA, lComma, lB, lSemi,
      lCONNECT, lA, lArrow, lB, lDot, lI1, lSemi, lMONITOR, lA, lSemi>>

\* DEVICE A: SWITCH, B: AND 1 INPUTS; CONNECT A -> B.I1; MONITOR A;
BadBodyFile ==
    <<lDEVICE, lA, lColon, Word(sSWITCH), lComma,
      lB, lColon, Word(sAND), Num(1), lINPUTS, lSemi,
      lCONNECT, lA, lArrow, lB, lDot, lI1, lSemi, lMONITOR, lA, lSemi>>

BaseFiles ==
    {GateFile, NoBodyFile, BadBodyFile}
    \cup {DtypeFile(CommentOf(k)) : k \in 0..MaxComment}
    \cup {NotFile(CommentOf(k)) : k \in 0..MaxComment}

Replaced(f) == {[f EXCEPT ![i] = l] : i \in 1..Len(f), l \in Alphabet}
Removed(f) == {SubSeq(f, 1, i - 1) \o SubSeq(f, i + 1, Len(f)) : i \in 1..Len(f)}
CutShort(f) == {SubSeq(f, 1, i) : i \in 0..Len(f)}

TrailLexemes == {lA, lSemi, lSlash, lDEVICE}
Trails == UNION {[1..k -> TrailLexemes] : k \in 0..MaxTrail}

Inputs ==
    (UNION {Replaced(f) \cup Removed(f) \cup CutShort(f) : f \in BaseFiles})
    \cup {f \o t : f \in BaseFiles, t \in Trails}

Init ==
    /\ input \in Inputs
    /\ pos = 1
    /\ names = InitialNames
    /\ symbol = NoSymbol
    /\ errors = <<>>
    /\ pc = "parse_network"
    /\ ret = <<>>
    /\ exc = NoExc
    /\ devs = NoDevices
    /\ mons = {}
    /\ calls = <<>>
    /\ file = NoFile
    /\ scanner = NoScanner
    /\ symbols = <<>>
    /\ reply = NoReply

Spec == Init /\ [][Next]_vars

(***************************************************************************)
(* The grammar of the definition language, read off the lexemes of a file  *)
(* f: each G-operator gives the position after the phrase that starts at   *)
(* position p, or 0 when no such phrase starts there.                      *)
(***************************************************************************)
EndLexeme == [cls |-> "eof", text |-> <<>>, val |-> None, type |-> None]
Lx(f, p) == IF p \in 1..Len(f) THEN f[p] ELSE EndLexeme

IsNameLx(l) == l.cls = "word" /\ l.text \notin SeqRange(KEYWORDS_LIST)
IsPunctLx(l, t) == l.cls = "punct" /\ l.type = t
IsGateLx(l) == l.cls = "word" /\ l.text \in {sAND, sOR, sNAND, sNOR}

\* comment := ["/" {any-symbol-except-"/"} "/"]
GComment(f, p) ==
    IF p = 0 \/ ~IsPunctLx(Lx(f, p), SLASH) THEN p
    ELSE IF \E j \in (p + 1)..Len(f) : IsPunctLx(f[j], SLASH)
    THEN 1 + CHOOSE j \in (p + 1)..Len(f) :
                 /\ IsPunctLx(f[j], SLASH)
                 /\ \A k \in (p + 1)..(j - 1) : ~IsPunctLx(f[k], SLASH)
    ELSE 0

\* device := devicename ":" devicebody
GDevice(f, p) ==
    IF ~(IsNameLx(Lx(f, p)) /\ IsPunctLx(Lx(f, p + 1), COLON)) THEN 0
    ELSE IF Lx(f, p + 2) = Word(sSWITCH) /\ Lx(f, p + 3) \in {Num(0), Num(1)}
    THEN p + 4
    ELSE IF Lx(f, p + 2) = Word(sCLOCK) /\ Lx(f, p + 3).cls = "number" THEN p + 4
    ELSE IF Lx(f, p + 2) \in {Word(sDTYPE), Word(sNOT), Word(sXOR)} THEN p + 3
    ELSE IF /\ IsGateLx(Lx(f, p + 2))
            /\ Lx(f, p + 3).cls = "number" /\ Lx(f, p + 3).val \in 2..16
            /\ Lx(f, p + 4) = Word(sINPUTS)
    THEN p + 5
    ELSE 0

\* outputname := devicename [ "." dtype-output-port ]
GOutputName(f, p) ==
    IF ~IsNameLx(Lx(f, p)) THEN 0
    ELSE IF ~IsPunctLx(Lx(f, p + 1), DOT) THEN p + 1
    ELSE IF Lx(f, p + 2) \in {Word(sQ), Word(sQBAR)} THEN p + 3
    ELSE 0

\* inputname := devicename "." ( dtype-input-port | "I" digits )
GInputName(f, p) ==
    IF /\ IsNameLx(Lx(f, p))
       /\ IsPunctLx(Lx(f, p + 1), DOT)
       /\ Lx(f, p + 2).cls = "word"
       /\ \/ Lx(f, p + 2).text \in {sCLK, sSET, sCLEAR, sDATA}
          \/ Head(Lx(f, p + 2).text) = "I" /\ IsDigitStr(Tail(Lx(f, p + 2).text))
    THEN p + 3
    ELSE 0

\* connection := outputname "->" inputname
GConnection(f, p) ==
    IF GOutputName(f, p) = 0 \/ ~IsPunctLx(Lx(f, GOutputName(f, p)), ARROW) THEN 0
    ELSE GInputName(f, GOutputName(f, p) + 1)

GItem(f, p, rule) ==
    IF p = 0 THEN 0
    ELSE IF rule = "device" THEN GDevice(f, p)
    ELSE IF rule = "connection" THEN GConnection(f, p)
    ELSE GOutputName(f, p)

\* {"," comment item}, from the position q after an item
RECURSIVE GItems(_, _, _)
GItems(f, q, rule) ==
    IF q = 0 \/ ~IsPunctLx(Lx(f, q), COMMA) THEN q
    ELSE GItems(f, GItem(f, GComment(f, q + 1), rule), rule)

\* list := keyword item {"," comment item} ";" comment
GList(f, p, kw, rule) ==
    IF p = 0 \/ Lx(f, p) # Word(kw) THEN 0
    ELSE IF ~IsPunctLx(Lx(f, GItems(f, GItem(f, p + 1, rule), rule)), SEMICOLON)
    THEN 0
    ELSE GComment(f, GItems(f, GItem(f, p + 1, rule), rule) + 1)

GDeviceList(f) == GList(f, 1, sDEVICE, "device")
GConnectionList(f) == GList(f, GDeviceList(f), sCONNECT, "connection")
GMonitorList(f) == GList(f, GConnectionList(f), sMONITOR, "monitor")

\* network := devicelist connectionlist monitorlist, and then the file ends
Conforms(f) == GMonitorList(f) = Len(f) + 1

\* The positions where the items of the list begin whose first item is at p
RECURSIVE ItemStarts(_, _, _)
ItemStarts(f, p, rule) ==
    IF p = 0 \/ GItem(f, p, rule) = 0 THEN {}
    ELSE IF ~IsPunctLx(Lx(f, GItem(f, p, rule)), COMMA) THEN {p}
    ELSE {p} \cup ItemStarts(f, GComment(f, GItem(f, p, rule) + 1), rule)

DeviceStarts(f) == ItemStarts(f, 2, "device")
ConnectionStarts(f) == ItemStarts(f, GDeviceList(f) + 1, "connection")
MonitorStarts(f) == ItemStarts(f, GConnectionList(f) + 1, "monitor")

\* The device item that defines the device called text
Defines(f, p, text) == p \in DeviceStarts(f) /\ f[p].text = text
IsDefined(f, text) == \E p \in DeviceStarts(f) : Defines(f, p, text)
DefinedAt(f, text) == CHOOSE p \in DeviceStarts(f) : Defines(f, p, text)

\* The device called text has the input port called port
DefinesInput(f, text, port) ==
    /\ IsDefined(f, text)
    /\ port \in InputNames(DevId(f[DefinedAt(f, text) + 2].text),
                           Lx(f, DefinedAt(f, text) + 3).val)

\* The input (device, port) of the connection that begins at p
InputOf(f, p) == <<f[GOutputName(f, p) + 1].text, f[GOutputName(f, p) + 3].text>>

\* A valid file: it conforms to the grammar, defines no device twice, refers
\* only to defined devices and to input ports they have, and gives no input
\* two sources
ValidFile(f) ==
    /\ Conforms(f)
    /\ \A p, q \in DeviceStarts(f) : f[p].text = f[q].text => p = q
    /\ \A p \in ConnectionStarts(f) :
         /\ IsDefined(f, f[p].text)
         /\ DefinesInput(f, InputOf(f, p)[1], InputOf(f, p)[2])
    /\ \A p, q \in ConnectionStarts(f) : InputOf(f, p) = InputOf(f, q) => p = q
    /\ \A p \in MonitorStarts(f) : IsDefined(f, f[p].text)

\* Every call to a store so far was accepted
AllAccepted == \A i \in 1..Len(calls) : calls[i].res = NO_ERROR

(***************************************************************************)
(* Properties                                                              *)
(***************************************************************************)
IsPrefix(a, b) == Len(a) <= Len(b) /\ SubSeq(b, 1, Len(a)) = a
Last(q) == q[Len(q)]

\* The step records exactly one diagnostic, of kind err
RecordsOne(err) ==
    /\ Len(errors') = Len(errors) + 1
    /\ IsPrefix(errors, errors')
    /\ Last(errors').name = err

\* The step records no diagnostic of kind err
RecordsNo(err) ==
    \A i \in (Len(errors) + 1)..Len(errors') : errors'[i].name # err

\* The step calls no store
CallsNoStore == calls' = calls /\ devs' = devs /\ mons' = mons

\* The lexeme of the current symbol
CurrentLexeme == Lx(input, symbol.cursor_column)

\* C1: parse_network returns False if and only if the Error Log holds a
\* diagnostic; the log only grows
C1_ResultIffDiagnostic ==
    [][/\ IsPrefix(errors, errors')
       /\ pc' = "done" => (ret' = <<FALSE>> <=> Len(errors') > 0)
       /\ pc' = "done" => (ret' = <<TRUE>> <=> errors' = <<>>)]_vars

C1_Witness == pc = "done" /\ ret = <<FALSE>> /\ Len(errors) >= 2

\* C2: a valid file, all of whose store calls are accepted, is parsed to the
\* end without a diagnostic and parse_network returns True
C2_ValidFileAccepted ==
    (\/ Len(errors) > 0
     \/ pc \in {"crashed", "comment_loop"}
     \/ (pc = "done" /\ ret = <<FALSE>>))
    => ~(AllAccepted /\ ValidFile(input))

\* C3: parse_network returns True only for a file that conforms to the
\* grammar from its first lexeme to its last
C3_TrueOnlyIfConforms == (pc = "done" /\ ret = <<TRUE>>) => Conforms(input)

\* C4: no exception leaves parse_network, whatever the stores return
C4_NoUncaughtException == pc # "crashed" /\ exc = NoExc

\* The first semicolon of f, where its device list ends (0 if there is none)
FirstSemicolon(f) ==
    IF \E j \in 1..Len(f) : IsPunctLx(f[j], SEMICOLON)
    THEN CHOOSE j \in 1..Len(f) :
           /\ IsPunctLx(f[j], SEMICOLON)
           /\ \A k \in 1..(j - 1) : ~IsPunctLx(f[k], SEMICOLON)
    ELSE 0

\* The device item of f that begins at a is not empty and is no device:
\* it ends at the next comma or semicolon
MalformedDeviceAt(f, a) ==
    /\ ~IsPunctLx(Lx(f, a), COMMA) /\ ~IsPunctLx(Lx(f, a), SEMICOLON)
    /\ \/ GDevice(f, a) = 0
       \/ \E k \in a..(GDevice(f, a) - 1) :
             IsPunctLx(f[k], COMMA) \/ IsPunctLx(f[k], SEMICOLON)
       \/ ~(IsPunctLx(Lx(f, GDevice(f, a)), COMMA)
            \/ IsPunctLx(Lx(f, GDevice(f, a)), SEMICOLON))

\* The device list of f has no comment and two malformed items
TwoMalformedDevices(f) ==
    /\ Lx(f, 1) = Word(sDEVICE)
    /\ FirstSemicolon(f) > 2
    /\ \A k \in 1..FirstSemicolon(f) : ~IsPunctLx(f[k], SLASH)
    /\ \E a, b \in {2} \cup {k + 1 : k \in {j \in 2..FirstSemicolon(f) :
                                              IsPunctLx(f[j], COMMA)}} :
         a # b /\ MalformedDeviceAt(f, a) /\ MalformedDeviceAt(f, b)

\* The diagnostics recorded at symbols of the device list
DeviceListDiagnostics ==
    {i \in 1..Len(errors) : errors[i].cursor_column <= FirstSemicolon(input)}

\* C5: a device list with two malformed items leaves at least two
\* diagnostics, one for each, when parse_network returns
C5_TwoDiagnostics ==
    (pc = "done" /\ TwoMalformedDevices(input))
    => Cardinality(DeviceListDiagnostics) >= 2

\* C6: make_device, make_connection and make_monitor are called only while
\* the Error Log is empty, so none is called once a diagnostic is recorded
C6_StoreCallsGated ==
    [][/\ \A i \in 1..Len(calls') : calls'[i].nerrs = 0
       /\ Len(errors) > 0 => CallsNoStore]_vars

C6_Witness ==
    /\ pc = "devicelist_sep"
    /\ Len(errors) = 1 /\ errors[1].name = DeviceDefinitionError
    /\ Len(calls) = 0
    /\ GDevice(input, 2) = 0 /\ GDevice(input, 7) > 0 /\ pos > 10

\* C7: a list rule that does not find its keyword at the current symbol
\* records a MissingKeywordError
C7_MissingKeywordRecorded ==
    [][/\ (pc = "devicelist" /\ CurrentLexeme # Word(sDEVICE))
            => RecordsOne(MissingKeywordError)
       /\ (pc = "connectionlist" /\ CurrentLexeme # Word(sCONNECT))
            => RecordsOne(MissingKeywordError)
       /\ (pc = "monitorlist" /\ CurrentLexeme # Word(sMONITOR))
            => RecordsOne(MissingKeywordError)]_vars

C7_Witness ==
    /\ pc = "connectionlist"
    /\ Len(errors) = 1 /\ errors[1].name = MissingKeywordError
    /\ Lx(input, 1) = Word(sCONNECT)

\* The device item at the current symbol is a gate followed by a number
GateWithNumber ==
    /\ pc = "device"
    /\ IsNameLx(CurrentLexeme)
    /\ IsPunctLx(Lx(input, symbol.cursor_column + 1), COLON)
    /\ IsGateLx(Lx(input, symbol.cursor_column + 2))
    /\ Lx(input, symbol.cursor_column + 3).cls = "number"

GateNumber == Lx(input, symbol.cursor_column + 3).val

ConnectionTo(o) ==
    /\ pc = "connection"
    /\ o = GOutputName(input, symbol.cursor_column)
    /\ o # 0
    /\ HasDevice(devs, Query(names, CurrentLexeme.text))
    /\ IsPunctLx(Lx(input, o), ARROW)
    /\ IsNameLx(Lx(input, o + 1))

ConnectionCalls == {i \in 1..Len(calls) : calls[i].op = "make_connection"}

\* C9: a connection to an input that has a source records a
\* MultipleConnectionError and calls no store; no input is passed to
\* make_connection twice
C9_SingleSource ==
    [][/\ \A o \in 1..Len(input) :
            (/\ ConnectionTo(o)
             /\ HasDevice(devs, Query(names, Lx(input, o + 1).text))
             /\ IsPunctLx(Lx(input, o + 2), DOT)
             /\ Lx(input, o + 3).cls = "word"
             /\ InputConnected(devs, Query(names, Lx(input, o + 1).text),
                               Query(names, Lx(input, o + 3).text)))
            => (RecordsOne(MultipleConnectionError) /\ CallsNoStore)
       /\ \A i, j \in ConnectionCalls' :
            (calls'[i].args[1] = calls'[j].args[1]
             /\ calls'[i].args[2] = calls'[j].args[2]) => i = j]_vars

C9_Witness ==
    /\ pc = "connectionlist_sep"
    /\ Len(errors) = 1 /\ errors[1].name = MultipleConnectionError
    /\ Cardinality(ConnectionCalls) = 1

\* C10: a connection or a monitor that names a device the store does not
\* hold records a DeviceReferenceError and calls no store
C10_DeviceReference ==
    [][/\ (/\ pc \in {"connection", "monitor"}
           /\ IsNameLx(CurrentLexeme)
           /\ ~HasDevice(devs, Query(names, CurrentLexeme.text)))
            => (RecordsOne(DeviceReferenceError) /\ CallsNoStore)
       /\ \A o \in 1..Len(input) :
            (/\ ConnectionTo(o)
             /\ ~HasDevice(devs, Query(names, Lx(input, o + 1).text)))
            => (RecordsOne(DeviceReferenceError) /\ CallsNoStore)]_vars

C10_Witness ==
    /\ pc = "monitorlist_sep"
    /\ Len(errors) = 1 /\ errors[1].name = DeviceReferenceError
    /\ Len(calls) >= 3


\* The members of a set of positions, in increasing order
RECURSIVE InOrder(_)
InOrder(ps) ==
    IF ps = {} THEN <<>>
    ELSE <<CHOOSE m \in ps : \A q \in ps : m <= q>>
         \o InOrder(ps \ {CHOOSE m \in ps : \A q \in ps : m <= q})

Accepted(op, args) == [op |-> op, args |-> args, res |-> NO_ERROR, nerrs |-> 0]

\* The call each item of a valid file f asks for, with the identifiers the
\* Name Table nm gives to its names
DeviceCall(f, nm, p) ==
    Accepted("make_device",
             <<Query(nm, f[p].text), Query(nm, f[p + 2].text), Lx(f, p + 3).val>>)

PortOf(f, nm, p) ==
    IF IsPunctLx(Lx(f, p + 1), DOT) THEN Query(nm, f[p + 2].text) ELSE None

ConnectionCall(f, nm, p) ==
    Accepted("make_connection",
             <<Query(nm, f[GOutputName(f, p) + 1].text),
               Query(nm, f[GOutputName(f, p) + 3].text),
               Query(nm, f[p].text), PortOf(f, nm, p)>>)

MonitorCall(f, nm, p) ==
    Accepted("make_monitor", <<Query(nm, f[p].text), PortOf(f, nm, p)>>)

ExpectedCalls(f, nm) ==
    [i \in 1..Cardinality(DeviceStarts(f)) |->
        DeviceCall(f, nm, InOrder(DeviceStarts(f))[i])]
    \o [i \in 1..Cardinality(ConnectionStarts(f)) |->
        ConnectionCall(f, nm, InOrder(ConnectionStarts(f))[i])]
    \o [i \in 1..Cardinality(MonitorStarts(f)) |->
        MonitorCall(f, nm, InOrder(MonitorStarts(f))[i])]

\* C11: for a valid file whose store calls are all accepted, the calls made
\* when parse_network returns are one make_device per device, one
\* make_connection per connection and one make_monitor per monitor, in the
\* order of the file and with the identifiers of the item's names
C11_OneCallPerItem ==
    (pc = "done" /\ AllAccepted /\ ValidFile(input))
    => calls = ExpectedCalls(input, names)


\* C12: when make_device returns an error for a well-formed device, the
\* step records a diagnostic and the device list goes on
C12_RejectionRecorded ==
    [][(/\ pc = "device"
        /\ Len(calls') = Len(calls) + 1
        /\ Last(calls').op = "make_device"
        /\ Last(calls').res # NO_ERROR)
       => (/\ Len(errors') > Len(errors)
           /\ pc' = "devicelist_sep")]_vars


(***************************************************************************)
(* Scanner (scanner.py), character by character.  The scanner's mutable    *)
(* state is threaded through a record: scanner (cur, cursor_line,          *)
(* cursor_column) and file (text, offset of the last character read,       *)
(* closed, and whether it was read after it was closed).                   *)
(***************************************************************************)
\* str.isalpha() and str.isalnum() on one character (the letters of the
\* files checked are capitals)
Letters ==
    {"A", "B", "C", "D", "E", "F", "G", "H", "I", "J", "K", "L", "M",
     "N", "O", "P", "Q", "R", "S", "T", "U", "V", "W", "X", "Y", "Z"}
IsAlpha(c) == c \in Letters
IsAlnum(c) == c \in Letters \cup Digits
IsDigit(c) == c \in Digits
IsSpace(c) == c \in Whitespace

\* int() of one digit
DigitVal(c) ==
    CASE c = "0" -> 0 [] c = "1" -> 1 [] c = "2" -> 2 [] c = "3" -> 3
      [] c = "4" -> 4 [] c = "5" -> 5 [] c = "6" -> 6 [] c = "7" -> 7
      [] c = "8" -> 8 [] c = "9" -> 9

\* self.file.read(1): the next character, or "" at the end of the file
Read1(f) ==
    IF f.closed
    THEN [ch |-> "", file |-> [f EXCEPT !.read_closed = TRUE]]
    ELSE IF f.offset < Len(f.text)
    THEN [ch |-> f.text[f.offset + 1], file |-> [f EXCEPT !.offset = f.offset + 1]]
    ELSE [ch |-> "", file |-> f]

\* Scanner._advance()
Advance(st) ==
    Then(Read1(st.file), LAMBDA r :
    [scanner |->
        [cur |-> r.ch,
         cursor_line |-> IF r.ch = "\n" THEN st.scanner.cursor_line + 1
                         ELSE st.scanner.cursor_line,
         cursor_column |-> IF r.ch = "\n" THEN 0
                           ELSE st.scanner.cursor_column + 1],
     file |-> r.file])

\* Scanner._get_next_non_whitespace()
RECURSIVE GetNextNonWhitespace(_)
GetNextNonWhitespace(st) ==
    IF st.scanner.cur = NoCur \/ IsSpace(st.scanner.cur)
    THEN Then(Advance(st), LAMBDA s1 : GetNextNonWhitespace(s1))
    ELSE st

\* Scanner._get_name(): the state it leaves and the string it returns
RECURSIVE GetName(_, _)
GetName(st, name_string) ==
    IF IsAlnum(st.scanner.cur)
    THEN Then(Advance(st), LAMBDA s1 :
              GetName(s1, Append(name_string, st.scanner.cur)))
    ELSE [st |-> st, str |-> name_string]

\* Scanner._get_number(): the state it leaves and int(num_string)
RECURSIVE GetNumber(_, _)
GetNumber(st, n) ==
    IF IsDigit(st.scanner.cur)
    THEN Then(Advance(st), LAMBDA s1 :
              GetNumber(s1, 10 * n + DigitVal(st.scanner.cur)))
    ELSE [st |-> st, val |-> n]

\* The type of the symbol that is one punctuation character
PunctuationType(c) ==
    CASE c = "," -> COMMA
      [] c = ":" -> COLON
      [] c = ";" -> SEMICOLON
      [] c = "/" -> SLASH
      [] c = "." -> DOT
      [] OTHER -> None


\* get_symbol as it would be if it advanced after every symbol, EOF included
AdvancesAfterAny(type) == TRUE

\* if symbol.type in (None, COMMA, COLON, SEMICOLON, ARROW, SLASH, DOT)
AdvancesAfter(type) ==
    type \in {None, COMMA, COLON, SEMICOLON, ARROW, SLASH, DOT}

\* The branches of get_symbol on self.cur: the type and id of the symbol, the
\* scanner state and the Name Table they leave
Classify(s1, nm) ==
    CASE IsAlpha(s1.scanner.cur) ->
           Then(GetName(s1, <<>>), LAMBDA r :
           Then(Lookup(nm, <<r.str>>), LAMBDA lk :
           [type |-> IF r.str \in SeqRange(KEYWORDS_LIST) THEN KEYWORD ELSE NAME,
            id |-> lk.ids[1], st |-> r.st, names |-> lk.names]))
      [] IsDigit(s1.scanner.cur) ->
           Then(GetNumber(s1, 0), LAMBDA r :
           [type |-> NUMBER, id |-> r.val, st |-> r.st, names |-> nm])
      [] s1.scanner.cur = "-" ->
           Then(Advance(s1), LAMBDA s2 :
           [type |-> IF s2.scanner.cur = ">" THEN ARROW ELSE None,
            id |-> None, st |-> s2, names |-> nm])
      [] s1.scanner.cur = "" ->
           [type |-> EOF, id |-> None,
            st |-> [s1 EXCEPT !.file.closed = TRUE], names |-> nm]
      [] OTHER ->
           [type |-> PunctuationType(s1.scanner.cur), id |-> None,
            st |-> s1, names |-> nm]

\* Scanner.get_symbol(): the symbol, the scanner state and the Name Table it
\* leaves, and the offset of the character the symbol was read from
ScanSymbol(st, nm) ==
    Then(GetNextNonWhitespace(st), LAMBDA s1 :
    Then(Classify(s1, nm), LAMBDA c :
    [sym |-> [type |-> c.type, id |-> c.id,
              cursor_line |-> s1.scanner.cursor_line,
              cursor_column |-> s1.scanner.cursor_column],
     start |-> IF s1.scanner.cur = "" THEN Len(s1.file.text) + 1
               ELSE s1.file.offset,
     st |-> IF AdvancesAfter(c.type) THEN Advance(c.st) ELSE c.st,
     names |-> c.names]))

\* The offset of the scanner's current character (one past the text at its end)
CurOffset(st) ==
    IF st.scanner.cur = "" THEN Len(st.file.text) + 1 ELSE st.file.offset

\* Most symbols of type EOF asked from one file
MaxEOF == 2

EOFCount == Cardinality({i \in 1..Len(symbols) : symbols[i].type = EOF})

\* A call of get_symbol; the parser is not part of this specification
GetSymbolCall ==
    /\ EOFCount < MaxEOF
    /\ \E r \in {ScanSymbol([scanner |-> scanner, file |-> file], names)} :
         /\ scanner' = r.st.scanner
         /\ file' = r.st.file
         /\ names' = r.names
         /\ symbols' = Append(symbols,
                [type |-> r.sym.type, id |-> r.sym.id,
                 cursor_line |-> r.sym.cursor_line,
                 cursor_column |-> r.sym.cursor_column,
                 start |-> r.start, stop |-> CurOffset(r.st)])
    /\ UNCHANGED <<parserVars, reply>>

ScanNext == GetSymbolCall

\* The texts scanned: up to MaxPieces of these pieces, one after the other
MaxPieces == 3

Pieces ==
    {sDEVICE, sCONNECT, sMONITOR, sINPUTS, <<"A">>, <<"1", "2">>,
     <<",">>, <<";">>, <<":">>, <<".">>, <<"/">>, <<"-">>, <<">">>,
     <<" ">>, <<"\n">>, <<"#">>}

RECURSIVE TextsOf(_)
TextsOf(n) ==
    IF n = 0 THEN {<<>>}
    ELSE TextsOf(n - 1) \cup {t \o q : t \in TextsOf(n - 1), q \in Pieces}

\* The parser and the stores, not used
ParserIdle ==
    /\ input = <<>>
    /\ pos = 1
    /\ symbol = NoSymbol
    /\ errors = <<>>
    /\ pc = "idle"
    /\ ret = <<>>
    /\ exc = NoExc
    /\ devs = NoDevices
    /\ mons = {}
    /\ calls = <<>>

\* Scanner.__init__: the file is open, the keywords are interned
ScanInit ==
    /\ ParserIdle
    /\ \E t \in TextsOf(MaxPieces) :
         file = [text |-> t, offset |-> 0, closed |-> FALSE, read_closed |-> FALSE]
    /\ scanner = NoScanner
    /\ names = Lookup(<<>>, KEYWORDS_LIST).names
    /\ symbols = <<>>
    /\ reply = NoReply

ScanSpec == ScanInit /\ [][ScanNext]_vars


\* The newlines of text before offset p, and the offset of p within its line
NewlinesBefore(text, p) == {k \in 1..(p - 1) : text[k] = "\n"}
OffsetInLine(text, p) ==
    IF NewlinesBefore(text, p) = {} THEN p - 1
    ELSE p - 1 - CHOOSE k \in NewlinesBefore(text, p) :
                     \A m \in NewlinesBefore(text, p) : m <= k

\* The symbols returned so far that are read from a character of the text
TextSymbols == {i \in 1..Len(symbols) : symbols[i].type # EOF}

\* C13: every returned symbol has the line of its first character (one plus
\* the newlines before it), and symbols that begin at the same offset of
\* their lines have the same column, on the first line as on a later one
C13_PositionOfFirstCharacter ==
    \A i, j \in TextSymbols :
        /\ symbols[i].cursor_line
             = 1 + Cardinality(NewlinesBefore(file.text, symbols[i].start))
        /\ OffsetInLine(file.text, symbols[i].start)
             = OffsetInLine(file.text, symbols[j].start)
           => symbols[i].cursor_column = symbols[j].cursor_column


\* The end of the longest run of characters of cls that begins at p
RunEnd(text, p, cls) ==
    CHOOSE q \in p..(Len(text) + 1) :
        /\ \A k \in p..(q - 1) : text[k] \in cls
        /\ q = Len(text) + 1 \/ text[q] \notin cls

\* The integer a run of digits stands for
RECURSIVE DecimalValue(_)
DecimalValue(ds) ==
    IF ds = <<>> THEN 0
    ELSE 10 * DecimalValue(SubSeq(ds, 1, Len(ds) - 1)) + DigitVal(ds[Len(ds)])

\* The symbols of a text from offset p on, as the lexical rules of the
\* language give them: names and keywords, numbers, punctuation, and a
\* symbol of no type for any other character
RECURSIVE Tokens(_, _)
Tokens(text, p) ==
    IF p > Len(text) THEN <<>>
    ELSE IF text[p] \in Whitespace THEN Tokens(text, p + 1)
    ELSE IF text[p] \in Letters
    THEN <<[type |-> IF SubSeq(text, p, RunEnd(text, p, Letters \cup Digits) - 1)
                          \in SeqRange(KEYWORDS_LIST)
                     THEN KEYWORD ELSE NAME,
            text |-> SubSeq(text, p, RunEnd(text, p, Letters \cup Digits) - 1),
            val |-> None, start |-> p,
            stop |-> RunEnd(text, p, Letters \cup Digits)]>>
         \o Tokens(text, RunEnd(text, p, Letters \cup Digits))
    ELSE IF text[p] \in Digits
    THEN <<[type |-> NUMBER, text |-> <<>>,
            val |-> DecimalValue(SubSeq(text, p, RunEnd(text, p, Digits) - 1)),
            start |-> p, stop |-> RunEnd(text, p, Digits)]>>
         \o Tokens(text, RunEnd(text, p, Digits))
    ELSE IF text[p] = "-" /\ p < Len(text) /\ text[p + 1] = ">"
    THEN <<[type |-> ARROW, text |-> <<>>, val |-> None,
            start |-> p, stop |-> p + 2]>>
         \o Tokens(text, p + 2)
    ELSE <<[type |-> PunctuationType(text[p]), text |-> <<>>, val |-> None,
            start |-> p, stop |-> p + 1]>>
         \o Tokens(text, p + 1)

\* The identifier the token's symbol is to carry
TokenId(tok, nm) ==
    IF tok.type \in {KEYWORD, NAME} THEN Query(nm, tok.text) ELSE tok.val

\* C14: the symbols returned are, in order, the names and keywords (maximal
\* runs of a letter and alphanumerics, with the Name Table's identifier),
\* the numbers (maximal runs of digits, with their value) and the
\* punctuation of the text (with no identifier), and EOF from its end on
C14_Classification ==
    \A i \in 1..Len(symbols) :
        IF i <= Len(Tokens(file.text, 1))
        THEN /\ symbols[i].type = Tokens(file.text, 1)[i].type
             /\ symbols[i].id = TokenId(Tokens(file.text, 1)[i], names)
        ELSE symbols[i].type = EOF /\ symbols[i].id = None


\* C15: the file is closed exactly from the first EOF that get_symbol
\* returns, it is never read after it was closed, and every symbol returned
\* after an EOF is an EOF
C15_ClosedAtEOF ==
    /\ file.closed <=> \E i \in 1..Len(symbols) : symbols[i].type = EOF
    /\ ~file.read_closed
    /\ \A i, j \in 1..Len(symbols) :
          (i < j /\ symbols[i].type = EOF) => symbols[j].type = EOF

C15_Witness ==
    /\ file.closed
    /\ Len(symbols) = 4
    /\ symbols[2].type # EOF /\ symbols[3].type = EOF /\ symbols[4].type = EOF


(***************************************************************************)
(* Name Table (names.py), call by call                                     *)
(***************************************************************************)
\* Most strings in one call of lookup, and the largest identifier asked for
MaxLookup == 2
MaxId == 4

\* The strings looked up: names, the empty string and a string of whitespace
NameStrings == {<<"A">>, <<"A", "B">>, <<>>, <<" ", "\n">>}

RECURSIVE ListsOf(_)
ListsOf(n) ==
    IF n = 0 THEN {<<>>}
    ELSE ListsOf(n - 1) \cup {Append(l, x) : l \in ListsOf(n - 1), x \in NameStrings}

\* names.lookup(name_string_list)
LookupCall ==
    /\ \E strs \in ListsOf(MaxLookup) :
         \E r \in {Lookup(names, strs)} :
            /\ names' = r.names
            /\ reply' = [op |-> "lookup", arg |-> strs, val |-> r.ids]
    /\ UNCHANGED <<parserVars, scannerVars>>

\* names.query(name_string)
QueryCall ==
    /\ \E x \in NameStrings :
         reply' = [op |-> "query", arg |-> x, val |-> Query(names, x)]
    /\ UNCHANGED <<names, parserVars, scannerVars>>

\* names.get_name_string(name_id)
GetNameStringCall ==
    /\ \E id \in (0 - MaxId)..MaxId :
         reply' = [op |-> "get_name_string", arg |-> id,
                   val |-> GetNameString(names, id)]
    /\ UNCHANGED <<names, parserVars, scannerVars>>

NamesNext ==
    \/ LookupCall
    \/ QueryCall
    \/ GetNameStringCall

\* Names.__init__: the table is empty
NamesInit ==
    /\ ParserIdle
    /\ file = NoFile
    /\ scanner = NoScanner
    /\ symbols = <<>>
    /\ names = <<>>
    /\ reply = NoReply

NamesSpec == NamesInit /\ [][NamesNext]_vars

\* The strings a lookup is about: not empty, not whitespace only
IsName(x) == x # <<>> /\ ~IsSpaceStr(x)

\* The strings of strs before position i that the table nm does not hold
NewBefore(nm, strs, i) == {strs[j] : j \in 1..(i - 1)} \ SeqRange(nm)

\* The first position of strs that holds the string at position i
FirstOf(strs, i) ==
    CHOOSE j \in 1..i : strs[j] = strs[i] /\ \A k \in 1..(j - 1) : strs[k] # strs[i]

\* C16: lookup of names returns one identifier for each, in order: the
\* one the string has, or the size of the table when it is added; the
\* identifiers are 0..size-1, one for each string, and never change; a string
\* looked up again gets the identifier it has
C16_Lookup ==
    [][/\ (reply'.op = "lookup" /\ \A i \in 1..Len(reply'.arg) : IsName(reply'.arg[i]))
          => /\ Len(reply'.val) = Len(reply'.arg)
             /\ \A i \in 1..Len(reply'.arg) :
                  reply'.val[i] =
                    IF reply'.arg[i] \in SeqRange(names)
                    THEN Query(names, reply'.arg[i])
                    ELSE Len(names)
                         + Cardinality(NewBefore(names, reply'.arg,
                                                 FirstOf(reply'.arg, i)))
       /\ \A i, j \in 1..Len(names') : names'[i] = names'[j] => i = j
       /\ \A i \in 1..Len(names') : Query(names', names'[i]) = i - 1
       /\ IsPrefix(names, names')
       /\ \A i \in 1..Len(names') :
            /\ Lookup(names', <<names'[i]>>).ids = <<i - 1>>
            /\ Lookup(names', <<names'[i]>>).names = names']_vars

C16_Witness ==
    /\ reply.op = "lookup"
    /\ reply.arg = <<<<"A">>, <<"A">>>>
    /\ reply.val = <<1, 1>>
    /\ names = <<<<"A", "B">>, <<"A">>>>

RuleOf(label) ==
    CASE label = "parse_network" -> 0
      [] label \in {"devicelist", "device", "devicelist_sep"} -> 1
      [] label \in {"connectionlist", "connection", "connectionlist_sep"} -> 2
      [] label \in {"monitorlist", "monitor", "monitorlist_sep"} -> 3
      [] label \in {"print_errors", "done"} -> 4
      [] OTHER -> None

\* C18: every step of a list rule is followed by that rule or by the next
\* one, so the three rules run once each, in order, and the result is
\* returned after the third; no step moves the scanner back
C18_RulesInOrder ==
    [][/\ RuleOf(pc') \in {RuleOf(pc), RuleOf(pc) + 1}
       /\ pc' = "devicelist" => pc = "parse_network"
       /\ pc' = "connectionlist" => RuleOf(pc) = 1
       /\ pc' = "monitorlist" => RuleOf(pc) = 2
       /\ pc' = "print_errors" => RuleOf(pc) = 3
       /\ pos' >= pos]_vars


\* The step calls _error: it records a diagnostic, or it is the call made
\* after a rejected make_device, which raises AttributeError
CallsError ==
    \/ Len(errors') > Len(errors)
    \/ exc = NoExc /\ exc' = AttributeError

\* The stopping symbols of the call: the default ones when an item rule
\* catches the error, SEMICOLON when a list rule does
StopsOfStep ==
    IF pc \in {"device", "connection", "monitor"}
       /\ pc' \in {"devicelist_sep", "connectionlist_sep", "monitorlist_sep"}
    THEN ItemStops
    ELSE ListStops

\* C19: every call of _error records exactly one diagnostic and returns at a
\* symbol of its stopping set or at EOF
C19_RecoveryPostcondition ==
    [][CallsError
       => /\ Len(errors') = Len(errors) + 1
          /\ IsPrefix(errors, errors')
          /\ symbol'.type \in StopsOfStep \cup {EOF}]_vars


\* C20: when a list rule is at its terminating semicolon, it leaves the
\* parser at the first symbol after the comment that follows the semicolon
\* (at the symbol after the semicolon when no comment follows)
C20_CommentAfterSemicolon ==
    [][(/\ pc \in {"devicelist_sep", "connectionlist_sep", "monitorlist_sep"}
        /\ symbol.type = SEMICOLON
        /\ GComment(input, symbol.cursor_column + 1) # 0)
       => symbol'.cursor_column = GComment(input, symbol.cursor_column + 1)]_vars


(***************************************************************************)
(* Positions of diagnostics, name rules, device rule, comments             *)
(***************************************************************************)
\* The step is one of an item rule, the others are steps of a list rule
ItemStep == pc \in {"device", "connection", "monitor"}

\* The step made a call to make_device or make_connection that was rejected:
\* the two stores whose result the parser looks at
RejectedCall ==
    /\ Len(calls') = Len(calls) + 1
    /\ Last(calls').res # NO_ERROR
    /\ Last(calls').op \in {"make_device", "make_connection"}

\* The position after the item at the current symbol
AfterItem ==
    IF pc = "device" THEN GDevice(input, symbol.cursor_column)
    ELSE IF pc = "connection" THEN GConnection(input, symbol.cursor_column)
    ELSE GOutputName(input, symbol.cursor_column)

\* C21: every diagnostic of the log has a line and a column; a list rule
\* records at its current symbol, an item rule at a symbol of the item, and
\* a rejection by a store is recorded at the symbol after the item
C21_DiagnosticPositions ==
    [][/\ \A i \in 1..Len(errors') :
            errors'[i].cursor_line # None /\ errors'[i].cursor_column # None
       /\ Len(errors') \in {Len(errors), Len(errors) + 1}
       /\ (~ItemStep /\ Len(errors') > Len(errors))
            => /\ Last(errors').cursor_line = symbol.cursor_line
               /\ Last(errors').cursor_column = symbol.cursor_column
       /\ (ItemStep /\ Len(errors') > Len(errors))
            => /\ Last(errors').cursor_line = symbol.cursor_line
               /\ Last(errors').cursor_column >= symbol.cursor_column
               /\ Last(errors').cursor_column <= symbol'.cursor_column
       /\ RejectedCall
            => /\ Len(errors') = Len(errors) + 1
               /\ Last(errors').cursor_column = AfterItem]_vars


\* The step records exactly one diagnostic, of kind err, at the symbol that
\* is at column col
RecordsAt(err, col) ==
    /\ RecordsOne(err)
    /\ Last(errors').cursor_column = col

\* The error _devicename raises for a symbol of this type, NoExc for a NAME
NameErrorOf(type) ==
    IF type = NAME THEN NoExc
    ELSE IF type = KEYWORD THEN ProtectedKeywordError
    ELSE NameSyntaxError

\* The type get_symbol gives to the lexeme at position p of the file
TypeAt(p) ==
    IF p > Len(input) THEN EOF
    ELSE IF Lx(input, p).cls = "word"
    THEN IF IsNameLx(Lx(input, p)) THEN NAME ELSE KEYWORD
    ELSE IF Lx(input, p).cls = "number" THEN NUMBER
    ELSE Lx(input, p).type

\* The connection at the current symbol is an output of a device the store
\* holds, followed by an arrow: _inputname starts at the symbol after it
InputNameAt(o) ==
    /\ pc = "connection"
    /\ o = GOutputName(input, symbol.cursor_column) + 1
    /\ o # 1
    /\ HasDevice(devs, symbol.id)
    /\ IsPunctLx(Lx(input, o - 1), ARROW)

\* C22: where the devicename rule runs (first in a device, a connection and a
\* monitor, and after the arrow of a connection), a KEYWORD records a
\* ProtectedKeywordError and any other symbol that is no NAME a
\* NameSyntaxError, at that very symbol and without a store call; for a NAME
\* neither is recorded at that symbol, and its identifier is the one passed
\* to the store
C22_DeviceName ==
    [][/\ (ItemStep /\ symbol.type # NAME)
            => /\ RecordsAt(NameErrorOf(symbol.type), symbol.cursor_column)
               /\ CallsNoStore
       /\ (ItemStep /\ symbol.type = NAME)
            => /\ \A i \in (Len(errors) + 1)..Len(errors') :
                    errors'[i].cursor_column = symbol.cursor_column
                    => errors'[i].name
                         \notin {ProtectedKeywordError, NameSyntaxError}
               /\ (pc \in {"device", "monitor"} /\ Len(calls') > Len(calls))
                    => Last(calls').args[1] = symbol.id
               /\ (pc = "connection" /\ Len(calls') > Len(calls))
                    => Last(calls').args[3] = symbol.id
       /\ \A o \in 1..(Len(input) + 1) :
            (InputNameAt(o) /\ TypeAt(o) # NAME)
            => /\ RecordsAt(NameErrorOf(TypeAt(o)), o)
               /\ CallsNoStore
       /\ \A o \in 1..(Len(input) + 1) :
            (InputNameAt(o) /\ TypeAt(o) = NAME /\ Len(calls') > Len(calls))
            => Last(calls').args[1] = Query(names', Lx(input, o).text)]_vars

\* A keyword where a device name is expected, after the arrow of a connection
C22_Witness ==
    /\ pc = "connectionlist_sep"
    /\ Len(errors) = 1
    /\ errors[1].name = ProtectedKeywordError
    /\ Lx(input, errors[1].cursor_column) = Word(sINPUTS)
    /\ IsPunctLx(Lx(input, errors[1].cursor_column - 1), ARROW)


\* The lexeme at position p is a name that is an input port by its form:
\* DATA, CLK, SET, CLEAR, or I followed by one or more digits
IsInputPortLx(p) ==
    /\ TypeAt(p) = NAME
    /\ \/ Lx(input, p).text \in {sDATA, sCLK, sSET, sCLEAR}
       \/ /\ Head(Lx(input, p).text) = "I"
          /\ Len(Lx(input, p).text) >= 2
          /\ \A k \in 2..Len(Lx(input, p).text) : Lx(input, p).text[k] \in Digits

\* The output name at the current symbol: a name of a device the store holds
OutputNameHere ==
    /\ pc \in {"connection", "monitor"}
    /\ symbol.type = NAME
    /\ HasDevice(devs, symbol.id)

\* The port argument of the call the step makes for its output name
OutputPortArg == IF pc = "monitor" THEN Last(calls').args[2] ELSE Last(calls').args[4]

\* C23: in an input name of a device the store holds, a missing dot records
\* a PunctuationError, and a NAME after the dot that is no input port by its
\* form (I alone included) a PortReferenceError, while one that is records
\* none; in an output name a missing dot is accepted with port None, and
\* after a dot anything but Q or QBAR records a NameSyntaxError
C23_PortNames ==
    [][/\ \A o \in 1..(Len(input) + 1) :
            (/\ InputNameAt(o)
             /\ TypeAt(o) = NAME
             /\ HasDevice(devs, Query(names, Lx(input, o).text)))
            => IF TypeAt(o + 1) # DOT
               THEN RecordsAt(PunctuationError, o + 1) /\ CallsNoStore
               ELSE IF TypeAt(o + 2) # NAME THEN TRUE
               ELSE IF IsInputPortLx(o + 2)
               THEN RecordsNo(PortReferenceError)
               ELSE RecordsAt(PortReferenceError, o + 2) /\ CallsNoStore
       /\ OutputNameHere
            => IF TypeAt(symbol.cursor_column + 1) # DOT
               THEN /\ pc = "monitor" => errors' = errors
                    /\ \A i \in (Len(errors) + 1)..Len(errors') :
                         errors'[i].cursor_column <= symbol.cursor_column + 1
                         => errors'[i].name # NameSyntaxError
                    /\ Len(calls') > Len(calls) => OutputPortArg = None
               ELSE IF Lx(input, symbol.cursor_column + 2) \in {Word(sQ), Word(sQBAR)}
               THEN /\ pc = "monitor" => errors' = errors
                    /\ Len(calls') > Len(calls)
                         => OutputPortArg
                              = Query(names', Lx(input, symbol.cursor_column + 2).text)
               ELSE /\ RecordsAt(NameSyntaxError, symbol.cursor_column + 2)
                    /\ CallsNoStore]_vars

\* "I" alone after the dot of an input name
C23_Witness ==
    /\ pc = "connectionlist_sep"
    /\ Len(errors) = 1
    /\ errors[1].name = PortReferenceError
    /\ Lx(input, errors[1].cursor_column) = lI
    /\ IsPunctLx(Lx(input, errors[1].cursor_column - 1), DOT)


\* The words that name a kind of device
DeviceKindWords ==
    {Word(sSWITCH), Word(sCLOCK), Word(sDTYPE), Word(sNOT), Word(sXOR),
     Word(sAND), Word(sOR), Word(sNAND), Word(sNOR)}

\* The device rule is at a name, at column c
DeviceAt(c) == pc = "device" /\ symbol.type = NAME /\ c = symbol.cursor_column

\* C24: in a device, a name not followed by a colon records a
\* PunctuationError; after the colon, SWITCH not followed by the number 0 or
\* 1 and CLOCK not followed by a number (the end of the file included)
\* record a DeviceDefinitionError, anything that is no kind of device a
\* NameSyntaxError, and a gate with 2..16 inputs not followed by INPUTS a
\* MissingKeywordError; each at the offending symbol, and no device is made
C24_DeviceErrors ==
    [][\A c \in 1..Len(input) :
         DeviceAt(c) =>
           IF TypeAt(c + 1) # COLON
           THEN RecordsAt(PunctuationError, c + 1) /\ CallsNoStore
           ELSE /\ (Lx(input, c + 2) = Word(sSWITCH)
                    /\ Lx(input, c + 3) \notin {Num(0), Num(1)})
                     => RecordsAt(DeviceDefinitionError, c + 3) /\ CallsNoStore
                /\ (Lx(input, c + 2) = Word(sCLOCK) /\ TypeAt(c + 3) # NUMBER)
                     => RecordsAt(DeviceDefinitionError, c + 3) /\ CallsNoStore
                /\ Lx(input, c + 2) \notin DeviceKindWords
                     => RecordsAt(NameSyntaxError, c + 2) /\ CallsNoStore
                /\ (/\ IsGateLx(Lx(input, c + 2))
                    /\ TypeAt(c + 3) = NUMBER
                    /\ Lx(input, c + 3).val \in 2..16
                    /\ Lx(input, c + 4) # Word(sINPUTS))
                     => RecordsAt(MissingKeywordError, c + 4) /\ CallsNoStore]_vars

\* CLOCK at the end of the file, after a device that was made
C24_Witness ==
    /\ pc = "devicelist_sep"
    /\ Len(errors) = 1
    /\ errors[1].name = DeviceDefinitionError
    /\ errors[1].cursor_column = Len(input) + 1
    /\ Lx(input, Len(input)) = Word(sCLOCK)
    /\ Len(calls) = 1


\* The step runs _next_symbol() and then _comment(): after a comma in every
\* list, after the semicolon in the device list
CommentAfterNext ==
    \/ pc \in {"devicelist_sep", "connectionlist_sep", "monitorlist_sep"}
       /\ symbol.type = COMMA
    \/ pc = "devicelist_sep" /\ symbol.type = SEMICOLON

\* C25: where the comment rule starts at a slash that has a closing slash,
\* the step leaves the parser at the symbol after the closing slash, whatever
\* is between the two, records nothing and calls no store; where it starts
\* at a symbol that is no slash, it reads nothing
C25_CommentFrame ==
    [][/\ (CommentAfterNext /\ GComment(input, symbol.cursor_column + 1) # 0)
            => /\ symbol'.cursor_column = GComment(input, symbol.cursor_column + 1)
               /\ pos' = GComment(input, symbol.cursor_column + 1) + 1
                  \/ pos' = Len(input) + 1
               /\ errors' = errors
               /\ CallsNoStore
               /\ pc' # "comment_loop"
       /\ (pc \in {"connectionlist_sep", "monitorlist_sep"}
           /\ symbol.type = SEMICOLON)
            => /\ symbol'.cursor_column = symbol.cursor_column + 1
               /\ errors' = errors
               /\ CallsNoStore]_vars

\* A comment that holds a character the scanner does not know was skipped
C25_Witness ==
    /\ pc = "device"
    /\ errors = <<>>
    /\ symbol.cursor_column > 3
    /\ IsPunctLx(Lx(input, symbol.cursor_column - 1), SLASH)
    /\ Lx(input, symbol.cursor_column - 2) = Other
    /\ IsPunctLx(Lx(input, symbol.cursor_column - 3), SLASH)
    /\ IsPunctLx(Lx(input, symbol.cursor_column - 4), COMMA)


(***************************************************************************)
(* Termination                                                             *)
(***************************************************************************)
\* parse_network runs on: when a step can take it to another rule, or to its
\* end, the step is taken
LiveSpec == Init /\ [][Next]_vars /\ WF_pc(Next)

\* C26: parse_network comes to an end on every file: it returns, or an
\* exception leaves it
C26_Terminates == <>(pc \in {"done", "crashed"})


(***************************************************************************)
(* Recovery and store calls                                                *)
(***************************************************************************)
\* The step is an item rule that recorded a diagnostic and recovered: the
\* list rule goes on after it
ItemRecovery ==
    /\ ItemStep
    /\ Len(errors') = Len(errors) + 1
    /\ pc' \in {"devicelist_sep", "connectionlist_sep", "monitorlist_sep"}

\* The lexemes the recovery discarded: from the symbol the diagnostic was
\* recorded at up to the symbol before the one the parser is left at
Discarded == Last(errors').cursor_column..(symbol'.cursor_column - 1)

\* C27: the symbols an item-level recovery discards include no comma and no
\* semicolon
C27_RecoveryKeepsTerminator ==
    [][ItemRecovery
       => \A k \in Discarded :
             /\ ~IsPunctLx(Lx(input, k), COMMA)
             /\ ~IsPunctLx(Lx(input, k), SEMICOLON)]_vars


(***************************************************************************)
(* Scanner: no character is dropped                                        *)
(***************************************************************************)
\* C28: the symbols returned begin, in order, at the first characters of the
\* names, numbers, arrows and single characters the text is made of, so that
\* every character that is no whitespace belongs to one symbol; a '-' without
\* '>' is one symbol of no type and the character after it begins the next
C28_NoCharacterDropped ==
    \A i \in 1..Len(symbols) :
        IF i <= Len(Tokens(file.text, 1))
        THEN /\ symbols[i].type # EOF
             /\ symbols[i].start = Tokens(file.text, 1)[i].start
             /\ (file.text[symbols[i].start] = "-" /\ symbols[i].type # ARROW)
                  => symbols[i].type = None
        ELSE symbols[i].type = EOF


\* C29: when parse_network returns and a store has rejected a call, the log
\* holds a diagnostic: True is returned only if every call was accepted
C29_RejectionsRecorded ==
    pc = "done"
    => /\ ~AllAccepted => Len(errors) > 0
       /\ ret = <<TRUE>> => AllAccepted


\* id is the identifier of a name that is no keyword
IsNameId(nm, id) ==
    /\ id \in 0..(Len(nm) - 1)
    /\ nm[id + 1] \notin SeqRange(KEYWORDS_LIST)

\* The arguments of a make_device call are well formed
DeviceArgs(nm, args) ==
    /\ IsNameId(nm, args[1])
    /\ args[2] \in {DevId(sSWITCH), DevId(sCLOCK), DevId(sDTYPE), DevId(sNOT),
                    DevId(sXOR)} \cup gate_types
    /\ IF args[2] = DevId(sSWITCH) THEN args[3] \in {0, 1}
       ELSE IF args[2] = DevId(sCLOCK) THEN args[3] \in Nat
       ELSE IF args[2] \in gate_types THEN args[3] \in 2..16
       ELSE args[3] = None

\* The arguments of a call are well formed, dv being the devices the store
\* holds when the item is parsed
WellFormedCall(c, nm, dv) ==
    IF c.op = "make_device" THEN DeviceArgs(nm, c.args)
    ELSE IF c.op = "make_connection"
    THEN HasDevice(dv, c.args[1]) /\ HasDevice(dv, c.args[3])
    ELSE HasDevice(dv, c.args[1])

\* C30: every call to a store has well-formed arguments: make_device the
\* identifier of the NAME the item begins with, one of the nine kinds, and 0
\* or 1 for SWITCH, a number for CLOCK, 2..16 for a gate, None otherwise;
\* make_connection and make_monitor name devices the store holds
C30_WellFormedCalls ==
    [][Len(calls') > Len(calls)
       => /\ Len(calls') = Len(calls) + 1
          /\ IsPrefix(calls, calls')
          /\ WellFormedCall(Last(calls'), names', devs)
          /\ pc = "device"
               => symbol.type = NAME /\ Last(calls').args[1] = symbol.id]_vars

\* A gate of 16 inputs was made, connected and monitored
C30_Witness ==
    /\ pc = "done"
    /\ \E i \in 1..Len(calls) :
          calls[i].op = "make_device" /\ calls[i].args[3] = 16
    /\ \E i \in 1..Len(calls) :
          calls[i].op = "make_connection" /\ calls[i].args[4] = None
    /\ \E i \in 1..Len(calls) : calls[i].op = "make_monitor"

=============================================================================
